---- MODULE Spec2Model ----
(***************************************************************************)
(* Scene-state history engine of the Canvas component                      *)
(* (src/unnamed/part_000, the latest variant of src/src/components/        *)
(* Canvas.tsx): the fabric canvas' object list and active object, the      *)
(* past/future snapshot stacks of historyRef, the style state, the image   *)
(* uploads in flight and the loadFromJSON calls in flight.                  *)
(*                                                                         *)
(* One step of the model is one browser task: a click handler, a change    *)
(* handler together with the effect it triggers, or the completion         *)
(* callback of an asynchronous operation.                                  *)
(***************************************************************************)
EXTENDS Integers, Sequences, FiniteSets, TLC

VARIABLES
    canvas,     \* useState canvas: "null" before the mount effect, "ready" after,
                \* "disposed" once the cleanup of the effect has run
    objects,    \* the fabric canvas' object list, index 1 paints first
    active,     \* identity of the canvas' active object, None when there is none
    history,    \* historyRef.current: [past, future], sequences of snapshots
    style,      \* fontFamily, fontSize, fontColor, elementColor
    uploads,    \* per file: "idle", "reading" (FileReader) or "decoding" (Image)
    loads,      \* snapshots handed to loadFromJSON whose load has not completed
    lastOp      \* the handler that ran last and whether it passed its guards

vars == <<canvas, objects, active, history, style, uploads, loads, lastOp>>

---------------------------------------------------------------------------
(* Bounds of the model *)

MaxObjects == 2     \* objects on the canvas, uploads in flight included
MaxHistory == 3     \* snapshots in past, uploads in flight included
MaxLoads == 2       \* loadFromJSON calls in flight
LayerObjects == 3   \* objects on the canvas in SpecLayers
LayerHistory == 5   \* snapshots in past in SpecLayers
FontObjects == 1    \* objects on the canvas in SpecFonts
FontHistory == 2    \* snapshots in past in SpecFonts
UploadObjects == 2  \* objects in SpecUploads, uploads in flight included
UploadHistory == 4  \* snapshots in SpecUploads, uploads in flight included
InterObjects == 3   \* objects in SpecInterleave, uploads in flight included
InterHistory == 5   \* snapshots in SpecInterleave, uploads in flight included

(* Input domains *)

None == 0

Files == {"a.png", "b.png"}
ShapeArgs == {"rectangle", "circle", "star"}
StyleShapeArgs == {"rectangle", "line"}
ImageShapeArgs == {"triangle"}
LayerShapeArgs == {"rectangle"}
UploadPairs == {{"a.png", "b.png"}}
UploadBatches == {{"a.png"}}
Directions == {"up", "down"}
FontSizes == {20, 24}
ElementColors == {"#e2e8f0", "#ff0000"}
FontFamilies == {"Arial", "Georgia"}
FontColors == {"#000000", "#0000ff"}
DragLefts == {100, 140}
RandomLefts == {60}
Texts == {"Click to edit text", "Hello"}

(* fabric's defaults for the attributes a constructor call does not set *)
DefaultFill == "rgb(0,0,0)"
NoStroke == "null"
NoFont == ""
NoText == ""
NoSrc == ""

---------------------------------------------------------------------------
(* Sequence helpers *)

Last(s) == s[Len(s)]
Front(s) == SubSeq(s, 1, Len(s) - 1)
RemoveAt(s, i) == SubSeq(s, 1, i - 1) \o SubSeq(s, i + 1, Len(s))
Swap(s, i, j) == [s EXCEPT ![i] = s[j], ![j] = s[i]]
IndexOf(objs, id) == CHOOSE i \in 1..Len(objs) : objs[i].id = id
Ids(objs) == {objs[i].id : i \in 1..Len(objs)}
Pending == {f \in Files : uploads[f] # "idle"}

(* The identity of a newly constructed object: distinct from every object  *)
(* that is still referenced by the canvas.                                  *)
NewId(objs, act) ==
    CHOOSE n \in 1..(Len(objs) + 2) :
        /\ n \notin Ids(objs) \cup {act}
        /\ \A m \in 1..(n - 1) : m \in Ids(objs) \cup {act}

---------------------------------------------------------------------------
(* Snapshot codec: JSON.stringify(canvas.toJSON()) and loadFromJSON *)

(* toJSON serializes every attribute of an object, not its identity *)
ToObject(o) == [f \in (DOMAIN o) \ {"id"} |-> o[f]]

Capture(objs) == [i \in 1..Len(objs) |-> ToObject(objs[i])]

(* enlivening constructs new objects from the serialized attributes *)
Enliven(snap) ==
    [i \in 1..Len(snap) |->
        [id |-> i, type |-> snap[i].type, left |-> snap[i].left,
         fill |-> snap[i].fill, stroke |-> snap[i].stroke,
         fontFamily |-> snap[i].fontFamily, fontSize |-> snap[i].fontSize,
         text |-> snap[i].text, src |-> snap[i].src]]

(* an image object is enlivened by loading its src, which completes in a   *)
(* later task; every other object is enlivened before the next task        *)
NeedsImageLoad(snap) == \E i \in 1..Len(snap) : snap[i].type = "image"

EmptyScene == << >>

---------------------------------------------------------------------------
(* Surface operations of the fabric canvas *)

Add_Front(objs, o) == <<o>> \o objs

Add(objs, o) == Append(objs, o)

Remove(objs, id) == RemoveAt(objs, IndexOf(objs, id))

BringForward_ToTop(objs, id) ==
    LET i == IndexOf(objs, id)
    IN Append(RemoveAt(objs, i), objs[i])

BringForward(objs, id) ==
    LET i == IndexOf(objs, id)
    IN IF i < Len(objs) THEN Swap(objs, i, i + 1) ELSE objs

SendBackwards(objs, id) ==
    LET i == IndexOf(objs, id)
    IN IF i > 1 THEN Swap(objs, i, i - 1) ELSE objs

BringForward_Only(objs, id) ==
    LET i == IndexOf(objs, id)
    IN IF i < Len(objs) THEN Swap(objs, i, i + 1) ELSE objs

CanvasBringToFront(objs, id) ==
    LET i == IndexOf(objs, id)
    IN Append(RemoveAt(objs, i), objs[i])

CanvasSendToBack_Swap(objs, id) == Swap(objs, 1, IndexOf(objs, id))

CanvasSendToBack(objs, id) ==
    LET i == IndexOf(objs, id)
    IN <<objs[i]>> \o RemoveAt(objs, i)

---------------------------------------------------------------------------
(* History stack *)

saveState_KeepFuture(h, objs) ==
    [past |-> Append(h.past, Capture(objs)), future |-> h.future]

saveState(h, objs) ==
    [past |-> Append(h.past, Capture(objs)), future |-> << >>]

UndoBlocked_OffByOne(h) == Len(h.past) < 1

UndoBlocked(h) == Len(h.past) <= 1

UndoStacks_Drops(h) == [past |-> Front(h.past), future |-> h.future]

UndoStacks(h) ==
    [past |-> Front(h.past), future |-> Append(h.future, Last(h.past))]

RedoBlocked(h) == Len(h.future) = 0

RedoStacks(h) ==
    [past |-> Append(h.past, Last(h.future)), future |-> Front(h.future)]

LoadFromJSON_Dropped(snap) == UNCHANGED <<objects, active, loads>>

(* canvas.loadFromJSON(snap, callback): once the objects are enlivened the *)
(* canvas is cleared, which discards the active object, and the new        *)
(* objects are added.                                                      *)
LoadFromJSON(snap) ==
    IF NeedsImageLoad(snap)
    THEN /\ loads' = Append(loads, snap)
         /\ UNCHANGED <<objects, active>>
    ELSE /\ objects' = Enliven(snap)
         /\ active' = None
         /\ UNCHANGED loads

Op(name, ok) == [op |-> name, applied |-> ok]

Skip(name) ==
    /\ lastOp' = Op(name, FALSE)
    /\ UNCHANGED <<canvas, objects, active, history, style, uploads, loads>>

---------------------------------------------------------------------------
Init ==
    /\ canvas = "null"
    /\ objects = << >>
    /\ active = None
    /\ history = [past |-> << >>, future |-> << >>]
    /\ style = [fontFamily |-> "Arial", fontSize |-> 20,
                fontColor |-> "#000000", elementColor |-> "#e2e8f0"]
    /\ uploads = [f \in Files |-> "idle"]
    /\ loads = << >>
    /\ lastOp = Op("none", FALSE)

Mount_NoSave ==
    /\ canvas = "null"
    /\ canvas' = "ready"
    /\ lastOp' = Op("init", TRUE)
    /\ UNCHANGED <<objects, active, history, style, uploads, loads>>

(* the mount effect: creates the canvas and saves the initial state *)
Mount ==
    /\ canvas = "null"
    /\ canvas' = "ready"
    /\ history' = saveState(history, objects)
    /\ lastOp' = Op("init", TRUE)
    /\ UNCHANGED <<objects, active, style, uploads, loads>>

(* the cleanup of the mount effect: fabricCanvas.dispose() empties the     *)
(* canvas; the handlers and callbacks created before keep their reference  *)
(* to it and to historyRef                                                 *)
Unmount ==
    /\ canvas = "ready"
    /\ canvas' = "disposed"
    /\ objects' = << >>
    /\ active' = None
    /\ lastOp' = Op("cleanup", TRUE)
    /\ UNCHANGED <<history, style, uploads, loads>>

(* With past left empty, past[past.length - 1] is undefined and            *)
(* JSON.parse(undefined) throws: the stacks stay as already changed and    *)
(* nothing is loaded.                                                      *)
undo ==
    IF canvas = "null" \/ UndoBlocked(history)
    THEN Skip("undo")
    ELSE LET h == UndoStacks(history)
         IN /\ history' = h
            /\ IF h.past = << >>
               THEN UNCHANGED <<objects, active, loads>>
               ELSE LoadFromJSON(Last(h.past))
            /\ lastOp' = Op("undo", TRUE)
            /\ UNCHANGED <<canvas, style, uploads>>

redo ==
    IF canvas = "null" \/ RedoBlocked(history)
    THEN Skip("redo")
    ELSE LET nextState == Last(history.future)
         IN /\ history' = RedoStacks(history)
            /\ LoadFromJSON(nextState)
            /\ lastOp' = Op("redo", TRUE)
            /\ UNCHANGED <<canvas, style, uploads>>

(* the deferred part of loadFromJSON: any call in flight may complete next *)
LoadComplete ==
    \E i \in 1..Len(loads) :
        /\ objects' = Enliven(loads[i])
        /\ active' = None
        /\ loads' = RemoveAt(loads, i)
        /\ lastOp' = Op("loaded", TRUE)
        /\ UNCHANGED <<canvas, history, style, uploads>>

(* an image of the snapshot fails to load: loadFromJSON gives up before    *)
(* it clears the canvas, its callback never runs, and undo and redo have   *)
(* no handler for the failure                                              *)
LoadFail ==
    \E i \in 1..Len(loads) :
        /\ loads' = RemoveAt(loads, i)
        /\ lastOp' = Op("restore failed", FALSE)
        /\ UNCHANGED <<canvas, objects, active, history, style, uploads>>

deleteSelected_AlwaysRecords ==
    IF canvas = "null"
    THEN Skip("deleteSelected")
    ELSE /\ objects' = IF active = None THEN objects ELSE Remove(objects, active)
         /\ active' = None
         /\ history' = saveState(history, objects')
         /\ lastOp' = Op("deleteSelected", active # None)
         /\ UNCHANGED <<canvas, style, uploads, loads>>

deleteSelected_KeepsActive ==
    IF canvas = "null" \/ active = None
    THEN Skip("deleteSelected")
    ELSE /\ objects' = Remove(objects, active)
         /\ history' = saveState(history, objects')
         /\ lastOp' = Op("deleteSelected", TRUE)
         /\ UNCHANGED <<canvas, active, style, uploads, loads>>

deleteSelected ==
    IF canvas = "null" \/ active = None
    THEN Skip("deleteSelected")
    ELSE /\ objects' = Remove(objects, active)
         /\ active' = None
         /\ history' = saveState(history, objects')
         /\ lastOp' = Op("deleteSelected", TRUE)
         /\ UNCHANGED <<canvas, style, uploads, loads>>

(* the switch of addShape: the object constructed for a kind, NoShape for  *)
(* any other argument                                                      *)
NoShape == [type |-> "undefined"]

NewShape(type, id, st) ==
    LET base == [id |-> id, type |-> "rect", left |-> 100,
                 fill |-> st.elementColor, stroke |-> NoStroke,
                 fontFamily |-> NoFont, fontSize |-> 0,
                 text |-> NoText, src |-> NoSrc]
    IN CASE type = "rectangle" -> base
         [] type = "circle" -> [base EXCEPT !.type = "circle"]
         [] type = "triangle" -> [base EXCEPT !.type = "triangle"]
         [] type = "line" -> [base EXCEPT !.type = "line", !.left = 50,
                                          !.fill = DefaultFill,
                                          !.stroke = st.elementColor]
         [] OTHER -> NoShape

addShape(type) ==
    LET shape == NewShape(type, NewId(objects, active), style)
    IN IF canvas = "null" \/ shape = NoShape
       THEN Skip("addShape")
       ELSE /\ objects' = Add(objects, shape)
            /\ active' = shape.id
            /\ history' = saveState(history, objects')
            /\ lastOp' = Op("addShape", TRUE)
            /\ UNCHANGED <<canvas, style, uploads, loads>>

NewText(id, st) ==
    [id |-> id, type |-> "i-text", left |-> 100, fill |-> st.fontColor,
     stroke |-> NoStroke, fontFamily |-> st.fontFamily,
     fontSize |-> st.fontSize, text |-> "Click to edit text", src |-> NoSrc]

addText_Records ==
    IF canvas = "null"
    THEN Skip("addText")
    ELSE LET text == NewText(NewId(objects, active), style)
         IN /\ objects' = Add(objects, text)
            /\ active' = text.id
            /\ history' = saveState(history, objects')
            /\ lastOp' = Op("addText", TRUE)
            /\ UNCHANGED <<canvas, style, uploads, loads>>

addText ==
    IF canvas = "null"
    THEN Skip("addText")
    ELSE LET text == NewText(NewId(objects, active), style)
         IN /\ objects' = Add(objects, text)
            /\ active' = text.id
            /\ lastOp' = Op("addText", TRUE)
            /\ UNCHANGED <<canvas, history, style, uploads, loads>>

handleImageUpload_Records(files) ==
    IF canvas = "null"
    THEN Skip("handleImageUpload")
    ELSE /\ files \cap Pending = {}
         /\ uploads' = [f \in Files |->
                          IF f \in files THEN "reading" ELSE uploads[f]]
         /\ history' = saveState(history, objects)
         /\ lastOp' = Op("handleImageUpload", TRUE)
         /\ UNCHANGED <<canvas, objects, active, style, loads>>

(* handleImageUpload: one FileReader per selected file *)
handleImageUpload(files) ==
    IF canvas = "null"
    THEN Skip("handleImageUpload")
    ELSE /\ files \cap Pending = {}
         /\ uploads' = [f \in Files |->
                          IF f \in files THEN "reading" ELSE uploads[f]]
         /\ lastOp' = Op("handleImageUpload", TRUE)
         /\ UNCHANGED <<canvas, objects, active, history, style, loads>>

(* reader.onload *)
ReaderOnload(f, hasResult) ==
    /\ uploads[f] = "reading"
    /\ uploads' = [uploads EXCEPT ![f] = IF hasResult THEN "decoding" ELSE "idle"]
    /\ lastOp' = Op("reader.onload", hasResult)
    /\ UNCHANGED <<canvas, objects, active, history, style, loads>>

(* the read fails: no handler is registered for it *)
ReaderError(f) ==
    /\ uploads[f] = "reading"
    /\ uploads' = [uploads EXCEPT ![f] = "idle"]
    /\ lastOp' = Op("reader.onerror", FALSE)
    /\ UNCHANGED <<canvas, objects, active, history, style, loads>>

NewImage(f, id, left) ==
    [id |-> id, type |-> "image", left |-> left, fill |-> DefaultFill,
     stroke |-> NoStroke, fontFamily |-> NoFont, fontSize |-> 0,
     text |-> NoText, src |-> f]

ImageOnload_Unrecorded(f, left) ==
    /\ uploads[f] = "decoding"
    /\ objects' = Add(objects, NewImage(f, NewId(objects, active), left))
    /\ uploads' = [uploads EXCEPT ![f] = "idle"]
    /\ lastOp' = Op("img.onload", TRUE)
    /\ UNCHANGED <<canvas, active, history, style, loads>>

(* img.onload *)
ImageOnload(f, left) ==
    /\ uploads[f] = "decoding"
    /\ objects' = Add(objects, NewImage(f, NewId(objects, active), left))
    /\ history' = saveState(history, objects')
    /\ uploads' = [uploads EXCEPT ![f] = "idle"]
    /\ lastOp' = Op("img.onload", TRUE)
    /\ UNCHANGED <<canvas, active, style, loads>>

ImageError_Records(f) ==
    /\ uploads[f] = "decoding"
    /\ history' = saveState(history, objects)
    /\ uploads' = [uploads EXCEPT ![f] = "idle"]
    /\ lastOp' = Op("img.onerror", FALSE)
    /\ UNCHANGED <<canvas, objects, active, style, loads>>

(* the decode fails: no handler is registered for it *)
ImageError(f) ==
    /\ uploads[f] = "decoding"
    /\ uploads' = [uploads EXCEPT ![f] = "idle"]
    /\ lastOp' = Op("img.onerror", FALSE)
    /\ UNCHANGED <<canvas, objects, active, history, style, loads>>

---------------------------------------------------------------------------
(* Selection/style binder *)

StyledObject_FillOnly(o, st) == [o EXCEPT !.fill = st.elementColor]

StyledObject(o, st) ==
    IF o.type = "i-text"
    THEN [o EXCEPT !.fontFamily = st.fontFamily, !.fontSize = st.fontSize,
                   !.fill = st.fontColor]
    ELSE IF o.type = "line"
         THEN [o EXCEPT !.stroke = st.elementColor]
         ELSE [o EXCEPT !.fill = st.elementColor]

updateSelectedObject(objs, act, st) ==
    IF act = None
    THEN objs
    ELSE [i \in 1..Len(objs) |->
            IF objs[i].id = act THEN StyledObject(objs[i], st) ELSE objs[i]]

(* a style control changes: the state setter, then the effect on           *)
(* [fontFamily, fontSize, fontColor, elementColor]                         *)
StyleChange(field, value) ==
    /\ canvas = "ready"
    /\ style[field] # value
    /\ style' = [style EXCEPT ![field] = value]
    /\ objects' = updateSelectedObject(objects, active, style')
    /\ lastOp' = Op("updateSelectedObject", active # None)
    /\ UNCHANGED <<canvas, active, history, uploads, loads>>

setFontFamily(v) == StyleChange("fontFamily", v)
setFontSize(v) == StyleChange("fontSize", v)
setFontColor(v) == StyleChange("fontColor", v)
setElementColor(v) == StyleChange("elementColor", v)

---------------------------------------------------------------------------
(* Layer ordering controller *)

moveLayer_AlwaysRecords(direction) ==
    IF canvas = "null"
    THEN Skip("moveLayer")
    ELSE /\ objects' = IF active = None THEN objects
                       ELSE IF direction = "up"
                            THEN BringForward(objects, active)
                            ELSE SendBackwards(objects, active)
         /\ history' = saveState(history, objects')
         /\ lastOp' = Op("moveLayer", active # None)
         /\ UNCHANGED <<canvas, active, style, uploads, loads>>

moveLayer(direction) ==
    IF canvas = "null" \/ active = None
    THEN Skip("moveLayer")
    ELSE /\ objects' = IF direction = "up"
                       THEN BringForward(objects, active)
                       ELSE SendBackwards(objects, active)
         /\ history' = saveState(history, objects')
         /\ lastOp' = Op("moveLayer", TRUE)
         /\ UNCHANGED <<canvas, active, style, uploads, loads>>

bringToFront ==
    IF canvas = "null" \/ active = None
    THEN Skip("bringToFront")
    ELSE /\ objects' = CanvasBringToFront(objects, active)
         /\ history' = saveState(history, objects')
         /\ lastOp' = Op("bringToFront", TRUE)
         /\ UNCHANGED <<canvas, active, style, uploads, loads>>

sendToBack ==
    IF canvas = "null" \/ active = None
    THEN Skip("sendToBack")
    ELSE /\ objects' = CanvasSendToBack(objects, active)
         /\ history' = saveState(history, objects')
         /\ lastOp' = Op("sendToBack", TRUE)
         /\ UNCHANGED <<canvas, active, style, uploads, loads>>

---------------------------------------------------------------------------
(* Interaction with the canvas itself *)

(* a click on an object makes it the active object *)
SelectObject(id) ==
    /\ id \in Ids(objects)
    /\ active # id
    /\ active' = id
    /\ lastOp' = Op("select", TRUE)
    /\ UNCHANGED <<canvas, objects, history, style, uploads, loads>>

(* a click on the empty canvas discards the active object *)
Deselect ==
    /\ active # None
    /\ active' = None
    /\ lastOp' = Op("deselect", TRUE)
    /\ UNCHANGED <<canvas, objects, history, style, uploads, loads>>

(* the user drags an object to another position: it becomes the active     *)
(* object and 'object:modified' fires                                      *)
ObjectDragged(id, left) ==
    /\ id \in Ids(objects)
    /\ objects[IndexOf(objects, id)].left # left
    /\ objects' = [objects EXCEPT ![IndexOf(objects, id)].left = left]
    /\ active' = id
    /\ history' = saveState(history, objects')
    /\ lastOp' = Op("object:modified", TRUE)
    /\ UNCHANGED <<canvas, style, uploads, loads>>

TextEdited_PerKeystroke(id, text) ==
    /\ id \in Ids(objects)
    /\ objects[IndexOf(objects, id)].type = "i-text"
    /\ objects[IndexOf(objects, id)].text # text
    /\ objects' = [objects EXCEPT ![IndexOf(objects, id)].text = text]
    /\ active' = id
    /\ history' = saveState(saveState(history, objects), objects')
    /\ lastOp' = Op("object:modified", TRUE)
    /\ UNCHANGED <<canvas, style, uploads, loads>>

(* the user edits a text object in place and leaves the editing mode:      *)
(* 'object:modified' fires once                                            *)
TextEdited(id, text) ==
    /\ id \in Ids(objects)
    /\ objects[IndexOf(objects, id)].type = "i-text"
    /\ objects[IndexOf(objects, id)].text # text
    /\ objects' = [objects EXCEPT ![IndexOf(objects, id)].text = text]
    /\ active' = id
    /\ history' = saveState(history, objects')
    /\ lastOp' = Op("object:modified", TRUE)
    /\ UNCHANGED <<canvas, style, uploads, loads>>

---------------------------------------------------------------------------
(* The bounds of a specification: a step is taken only into a state within *)
(* them.                                                                   *)
InBounds ==
    /\ Len(objects) + Cardinality(Pending) <= MaxObjects
    /\ Len(history.past) + Len(history.future) + Cardinality(Pending) <= MaxHistory
    /\ Len(loads) <= MaxLoads

ObjectIds == 1..(MaxObjects + 1)

(* Editing without images: shapes, text, deletion, layer order, undo/redo. *)
Next ==
    \/ Mount
    \/ undo /\ InBounds'
    \/ redo /\ InBounds'
    \/ deleteSelected /\ InBounds'
    \/ \E type \in ShapeArgs : addShape(type) /\ InBounds'
    \/ addText /\ InBounds'
    \/ \E d \in Directions : moveLayer(d) /\ InBounds'
    \/ bringToFront /\ InBounds'
    \/ sendToBack /\ InBounds'
    \/ \E id \in ObjectIds : SelectObject(id)
    \/ Deselect
    \/ \E id \in ObjectIds, text \in Texts : TextEdited(id, text) /\ InBounds'

Spec == Init /\ [][Next]_vars

(* Style changes between the edits that record history. *)
NextStyle ==
    \/ Mount
    \/ undo /\ InBounds'
    \/ redo /\ InBounds'
    \/ \E type \in StyleShapeArgs : addShape(type) /\ InBounds'
    \/ addText /\ InBounds'
    \/ \E v \in ElementColors : setElementColor(v)
    \/ \E id \in ObjectIds : SelectObject(id)
    \/ Deselect

SpecStyle == Init /\ [][NextStyle]_vars

(* Reordering three objects: the objects are shapes and texts. *)
InLayerBounds ==
    /\ Len(objects) <= LayerObjects
    /\ Len(history.past) <= LayerHistory

NextLayers ==
    \/ Mount
    \/ \E type \in LayerShapeArgs : addShape(type) /\ InLayerBounds'
    \/ addText /\ InLayerBounds'
    \/ \E d \in Directions : moveLayer(d) /\ InLayerBounds'
    \/ bringToFront /\ InLayerBounds'
    \/ sendToBack /\ InLayerBounds'
    \/ \E id \in 1..(LayerObjects + 1) : SelectObject(id)

SpecLayers == Init /\ [][NextLayers]_vars

(* Every style control, with a text, a shape or a line as active object or *)
(* with none.                                                              *)
InFontBounds ==
    /\ Len(objects) <= FontObjects
    /\ Len(history.past) <= FontHistory

NextFonts ==
    \/ Mount
    \/ \E type \in StyleShapeArgs : addShape(type) /\ InFontBounds'
    \/ addText /\ InFontBounds'
    \/ \E v \in FontFamilies : setFontFamily(v)
    \/ \E v \in FontSizes : setFontSize(v)
    \/ \E v \in FontColors : setFontColor(v)
    \/ \E v \in ElementColors : setElementColor(v)
    \/ \E id \in 1..(FontObjects + 1) : SelectObject(id)
    \/ Deselect

SpecFonts == Init /\ [][NextFonts]_vars

(* Two files chosen in one change event, once: their reads and decodes end *)
(* in any order, successfully or not, while the user selects, recolours    *)
(* and deletes objects or leaves the page; shapes are added before.        *)
InUploadBounds ==
    /\ Len(objects) + Cardinality(Pending) <= UploadObjects
    /\ Len(history.past) + Cardinality(Pending) <= UploadHistory

HoldsImage(snap) == \E i \in 1..Len(snap) : snap[i].type = "image"

NothingUploaded ==
    /\ Pending = {}
    /\ \A k \in 1..Len(history.past) : ~HoldsImage(history.past[k])

Alive == canvas = "ready"

NextUploads ==
    \/ Mount
    \/ Unmount
    \/ \E type \in LayerShapeArgs :
          Alive /\ NothingUploaded /\ addShape(type) /\ InUploadBounds'
    \/ \E files \in UploadPairs :
          Alive /\ NothingUploaded /\ handleImageUpload(files) /\ InUploadBounds'
    \/ \E f \in Files, hasResult \in BOOLEAN : ReaderOnload(f, hasResult)
    \/ \E f \in Files : ReaderError(f)
    \/ \E f \in Files, left \in RandomLefts : ImageOnload(f, left)
    \/ \E f \in Files : ImageError(f)
    \/ Alive /\ deleteSelected /\ InUploadBounds'
    \/ \E v \in ElementColors : setElementColor(v)
    \/ \E id \in 1..(UploadObjects + 1) : Alive /\ SelectObject(id)
    \/ Alive /\ Deselect

(* a read ends with load or error, and a decode ends with load or error *)
ReadEnds == \E f \in Files : ReaderOnload(f, TRUE) \/ ReaderOnload(f, FALSE) \/ ReaderError(f)
DecodeEnds == \E f \in Files : (\E left \in RandomLefts : ImageOnload(f, left)) \/ ImageError(f)

SpecUploads ==
    Init /\ [][NextUploads]_vars /\ WF_vars(ReadEnds) /\ WF_vars(DecodeEnds)

(* N records, then undo and redo with nothing else in between: an edit is  *)
(* made only while no undo is outstanding and no restore is in flight, and *)
(* undo waits for the uploads in flight.                                   *)
Settled == history.future = << >> /\ loads = << >>

NextUndoRedo ==
    \/ Mount
    \/ undo /\ Pending = {} /\ InBounds'
    \/ redo /\ InBounds'
    \/ LoadComplete /\ InBounds'
    \/ \E type \in ImageShapeArgs : addShape(type) /\ Settled /\ InBounds'
    \/ \E files \in UploadBatches : handleImageUpload(files) /\ Settled /\ InBounds'
    \/ \E f \in Files : ReaderOnload(f, TRUE)
    \/ \E f \in Files, left \in RandomLefts : ImageOnload(f, left) /\ InBounds'

SpecUndoRedo == Init /\ [][NextUndoRedo]_vars

(* Undo and redo over snapshots with an image, whose restore may fail. *)
NextRestore ==
    \/ Mount
    \/ undo /\ Pending = {} /\ InBounds'
    \/ redo /\ InBounds'
    \/ LoadComplete /\ InBounds'
    \/ LoadFail
    \/ \E type \in ImageShapeArgs : addShape(type) /\ Settled /\ InBounds'
    \/ \E files \in UploadBatches : handleImageUpload(files) /\ Settled /\ InBounds'
    \/ \E f \in Files : ReaderOnload(f, TRUE)
    \/ \E f \in Files, left \in RandomLefts : ImageOnload(f, left) /\ InBounds'

SpecRestore == Init /\ [][NextRestore]_vars

(* Editing before and while one upload is in flight, until it completes. *)
NoImageYet == \A k \in 1..Len(history.past) : ~HoldsImage(history.past[k])

InInterBounds ==
    /\ Len(objects) + Cardinality(Pending) <= InterObjects
    /\ Len(history.past) + Len(history.future) + Cardinality(Pending) <= InterHistory

NextInterleave ==
    \/ Mount
    \/ NoImageYet /\ undo /\ InInterBounds'
    \/ NoImageYet /\ redo /\ InInterBounds'
    \/ NoImageYet /\ deleteSelected /\ InInterBounds'
    \/ \E type \in LayerShapeArgs : NoImageYet /\ addShape(type) /\ InInterBounds'
    \/ \E d \in Directions : NoImageYet /\ moveLayer(d) /\ InInterBounds'
    \/ \E files \in UploadBatches :
          NothingUploaded /\ handleImageUpload(files) /\ InInterBounds'
    \/ \E f \in Files : ReaderOnload(f, TRUE)
    \/ \E f \in Files, left \in RandomLefts : ImageOnload(f, left)
    \/ \E id \in 1..(InterObjects + 1) : NoImageYet /\ SelectObject(id)

SpecInterleave == Init /\ [][NextInterleave]_vars

---------------------------------------------------------------------------
(* Properties *)

past == history.past
future == history.future

RecordingOps ==
    {"init", "addShape", "deleteSelected", "moveLayer", "bringToFront",
     "sendToBack", "object:modified", "img.onload"}

TypesOf(seq) == [i \in 1..Len(seq) |-> seq[i].type]

Without(objs, id) == SelectSeq(objs, LAMBDA o : o.id # id)

(* C1: after the mount effect past holds exactly the snapshot of the empty *)
(* scene and future is empty; an undo issued right after it changes        *)
(* neither past, future nor the object list.                               *)
C1_InitThenUndo ==
    [][ /\ (lastOp'.op = "init" =>
              history' = [past |-> <<EmptyScene>>, future |-> << >>])
        /\ (lastOp.op = "init" /\ lastOp'.op = "undo" =>
              UNCHANGED <<history, objects>>) ]_vars

C1_Witness ==
    /\ lastOp = Op("undo", FALSE)
    /\ history = [past |-> <<EmptyScene>>, future |-> << >>]
    /\ objects = << >>

(* C2: once the component is initialized, past has at least one entry and  *)
(* its first entry is the snapshot of the initial empty scene.             *)
C2_PastNeverEmpty ==
    canvas = "ready" => (Len(past) >= 1 /\ past[1] = EmptyScene)

C2_Witness ==
    /\ canvas = "ready"
    /\ lastOp = Op("undo", TRUE)
    /\ Len(past) = 1
    /\ Len(future) = 2

(* C3: every call of saveState appends exactly one snapshot of the object  *)
(* list as it then is to the end of past and leaves future empty, whatever *)
(* future held before (record; undo; record).                              *)
C3_RecordAppends ==
    [][ (lastOp'.op \in RecordingOps /\ lastOp'.applied) =>
            /\ history'.past = Append(past, Capture(objects'))
            /\ history'.future = << >> ]_vars

C3_Witness ==
    /\ lastOp.op \in RecordingOps \ {"init"}
    /\ lastOp.applied
    /\ Len(past) = 3
    /\ future = << >>
    /\ Last(past) = Capture(objects)

(* C4 as stated: every operation other than undo and redo that changes the *)
(* object list or an object's attributes leaves future empty.              *)
C4_Original ==
    [][ (lastOp'.op \notin {"undo", "redo", "loaded"} /\ objects' # objects) =>
            history'.future = << >> ]_vars

(* C4 as amended: the operations that record history leave future empty,   *)
(* and redo with an empty future changes nothing; addText and a style      *)
(* change applied to the selection change the object list but neither past *)
(* nor future.                                                             *)
C4_Amended ==
    [][ /\ (lastOp'.op \in RecordingOps /\ lastOp'.applied =>
              history'.future = << >>)
        /\ (lastOp'.op = "redo" /\ future = << >> =>
              UNCHANGED <<history, objects>>)
        /\ (lastOp'.op \in {"addText", "updateSelectedObject"} =>
              history' = history) ]_vars

C4_Witness ==
    /\ lastOp = Op("updateSelectedObject", TRUE)
    /\ future # << >>
    /\ Capture(objects) # Last(past)

(* C5: after N records, N undos and N redos, and once every restore they   *)
(* issued has completed, the object list is structurally equal to the      *)
(* last snapshot SN, the top of past, and future is empty.                 *)
C5_UndoRedoInverse ==
    (/\ canvas = "ready"
     /\ lastOp.op \in {"redo", "loaded"}
     /\ future = << >>
     /\ loads = << >>) => Capture(objects) = Last(past)

(* C6: undo with more than one entry in past moves the top of past onto    *)
(* the top of future and restores the object list to the snapshot that is  *)
(* then the top of past; with at most one entry it changes nothing.        *)
C6_Undo ==
    [][ lastOp'.op = "undo" =>
          IF canvas = "ready" /\ Len(past) > 1
          THEN /\ history'.past = Front(past)
               /\ history'.future = Append(future, Last(past))
               /\ Capture(objects') = Last(history'.past)
          ELSE UNCHANGED <<history, objects>> ]_vars

(* C7: redo with a non-empty future moves the top of future onto the top   *)
(* of past and restores the object list to that snapshot; with an empty    *)
(* future it changes nothing.                                              *)
C7_Redo ==
    [][ lastOp'.op = "redo" =>
          IF canvas = "ready" /\ Len(future) > 0
          THEN /\ history'.past = Append(past, Last(future))
               /\ history'.future = Front(future)
               /\ Capture(objects') = Last(future)
          ELSE UNCHANGED <<history, objects>> ]_vars

(* C8: addShape of a valid kind appends one object at the top of the       *)
(* object list, makes it the active object and records exactly one         *)
(* snapshot; from the empty scene, rectangle then circle leave three       *)
(* entries in past, one undo leaves only the rectangle and one redo leaves *)
(* the rectangle and the circle in that order.                             *)
ScenarioA(h) ==
    /\ Len(h) = 3
    /\ h[1] = EmptyScene
    /\ TypesOf(h[2]) = <<"rect">>
    /\ TypesOf(h[3]) = <<"rect", "circle">>

C8_AddShape ==
    [][ /\ (lastOp'.op = "addShape" /\ lastOp'.applied =>
              /\ Len(objects') = Len(objects) + 1
              /\ SubSeq(objects', 1, Len(objects)) = objects
              /\ Last(objects').id \notin Ids(objects)
              /\ Last(objects').type \in {"rect", "circle", "triangle", "line"}
              /\ active' = Last(objects').id
              /\ history'.past = Append(past, Capture(objects')))
        /\ (lastOp'.op = "undo" /\ ScenarioA(past) =>
              TypesOf(objects') = <<"rect">>)
        /\ (lastOp'.op = "redo" /\ ScenarioA(past \o future) /\ Len(future) = 1 =>
              TypesOf(objects') = <<"rect", "circle">>) ]_vars

C8_Witness ==
    /\ lastOp = Op("redo", TRUE)
    /\ ScenarioA(past)
    /\ TypesOf(objects) = <<"rect", "circle">>

(* C9: deleteSelected without an active object leaves past, future and the *)
(* object list unchanged; with one it removes exactly that object and      *)
(* records exactly one snapshot.                                           *)
C9_DeleteSelected ==
    [][ lastOp'.op = "deleteSelected" =>
          IF canvas = "ready" /\ active # None
          THEN /\ active \in Ids(objects)
               /\ objects' = Without(objects, active)
               /\ Len(objects') = Len(objects) - 1
               /\ history'.past = Append(past, Capture(objects'))
          ELSE UNCHANGED <<history, objects>> ]_vars

C9_Witness ==
    /\ canvas = "ready"
    /\ lastOp = Op("deleteSelected", FALSE)
    /\ Len(objects) >= 1
    /\ Len(past) >= 2

(* C10: bringToFront leaves the active object at the last index of the     *)
(* object list whatever its index before, and sendToBack leaves it at the  *)
(* first index.                                                            *)
C10_MoveToExtreme ==
    [][ /\ (lastOp'.op = "bringToFront" /\ lastOp'.applied =>
              /\ active \in Ids(objects)
              /\ Last(objects').id = active)
        /\ (lastOp'.op = "sendToBack" /\ lastOp'.applied =>
              /\ active \in Ids(objects)
              /\ objects'[1].id = active) ]_vars

(* the rectangle, added on top of two texts, is moved down twice and then  *)
(* brought to the front                                                    *)
C10_Witness ==
    /\ lastOp = Op("bringToFront", TRUE)
    /\ Len(past) = 5
    /\ TypesOf(past[2]) = <<"i-text", "i-text", "rect">>
    /\ TypesOf(past[3]) = <<"i-text", "rect", "i-text">>
    /\ TypesOf(past[4]) = <<"rect", "i-text", "i-text">>
    /\ TypesOf(objects) = <<"i-text", "i-text", "rect">>
    /\ Last(objects).id = active

LayerOps == {"moveLayer", "bringToFront", "sendToBack"}

(* C11: moveLayer, bringToFront and sendToBack invoked without an active   *)
(* object change nothing: the object list, past and future stay as they    *)
(* are.                                                                    *)
C11_NoSelection ==
    [][ (lastOp'.op \in LayerOps /\ active = None) =>
            /\ ~lastOp'.applied
            /\ UNCHANGED <<objects, history, active>> ]_vars

C11_Witness ==
    /\ canvas = "ready"
    /\ lastOp = Op("sendToBack", FALSE)
    /\ active = None
    /\ Len(objects) = 2
    /\ Len(past) = 3

(* C12: addText appends one text object, makes it the active object and    *)
(* records nothing; the committed edit of its content that follows records *)
(* exactly one snapshot, so past grows by exactly one over the two steps.  *)
C12_TextThenEdit ==
    [][ /\ (lastOp'.op = "addText" /\ lastOp'.applied =>
              /\ Len(objects') = Len(objects) + 1
              /\ SubSeq(objects', 1, Len(objects)) = objects
              /\ Last(objects').type = "i-text"
              /\ Last(objects').id \notin Ids(objects)
              /\ active' = Last(objects').id
              /\ history' = history)
        /\ (lastOp.op = "addText" /\ lastOp.applied
              /\ lastOp'.op = "object:modified" =>
              /\ Len(history'.past) = Len(past) + 1
              /\ history'.past = Append(past, Capture(objects'))) ]_vars

C12_Witness ==
    /\ lastOp = Op("object:modified", TRUE)
    /\ Len(objects) = 1
    /\ objects[1].type = "i-text"
    /\ objects[1].text = "Hello"
    /\ past = <<EmptyScene, Capture(objects)>>

(* C18: a layer operation that leaves the object list as it was records   *)
(* nothing, so it leaves past and future unchanged.                        *)
C18_NoOpNotRecorded ==
    [][ (lastOp'.op \in LayerOps /\ objects' = objects) =>
            history' = history ]_vars

(* C19: moveLayer with an active object that is not at the end it is moved *)
(* towards swaps it with its neighbour on that side, every other object    *)
(* staying at its index, and records exactly one snapshot.                 *)
C19_MoveByOne ==
    [][ \A d \in Directions :
          (moveLayer(d) /\ lastOp'.applied) =>
             LET n == Len(objects)
                 i == IndexOf(objects, active)
                 j == IF d = "up" THEN i + 1 ELSE i - 1
             IN /\ active \in Ids(objects)
                /\ Len(objects') = n
                /\ (j \in 1..n =>
                      /\ objects'[j] = objects[i]
                      /\ objects'[i] = objects[j]
                      /\ \A k \in (1..n) \ {i, j} : objects'[k] = objects[k])
                /\ history'.past = Append(past, Capture(objects')) ]_vars

(* the rectangle under two texts is moved up and then down again *)
C19_Witness ==
    /\ lastOp = Op("moveLayer", TRUE)
    /\ Len(past) >= 3
    /\ TypesOf(past[Len(past) - 1]) = <<"i-text", "rect", "i-text">>
    /\ TypesOf(objects) = <<"rect", "i-text", "i-text">>
    /\ objects[1].id = active

(* C20 as stated: whenever no upload and no restore is in flight, the top  *)
(* of past is the snapshot of the object list as it is.                    *)
C20_Original ==
    (canvas = "ready" /\ Pending = {} /\ loads = << >>) =>
        Last(past) = Capture(objects)

(* C20 as amended: with no upload and no restore in flight, the top of     *)
(* past is the snapshot of the object list right after every operation     *)
(* that records and right after every undo and redo that passes its guard, *)
(* and every step other than addText and a style change applied to the     *)
(* active object keeps the two equal.                                      *)
C20_Amended ==
    [][ (Pending' = {} /\ loads' = << >>) =>
          /\ (lastOp'.op \in RecordingOps \cup {"undo", "redo"}
                /\ lastOp'.applied =>
                Last(history'.past) = Capture(objects'))
          /\ (canvas = "ready" /\ Last(past) = Capture(objects)
                /\ lastOp'.op \notin {"addText", "updateSelectedObject"} =>
                Last(history'.past) = Capture(objects')) ]_vars

(* a text is added, then a rectangle, which records both; undo restores    *)
(* the empty scene                                                         *)
C20_Witness ==
    /\ lastOp = Op("undo", TRUE)
    /\ Last(past) = Capture(objects)
    /\ past = <<EmptyScene>>
    /\ Len(future) = 1
    /\ TypesOf(future[1]) = <<"i-text", "rect">>

(* C17: a change of a style control while an object is active sets, on    *)
(* that object alone, the font family, font size and fill (font color) of  *)
(* a text, the stroke of a line and the fill of any other object to the    *)
(* values of the style state, and changes neither past nor future; without *)
(* an active object it changes no object and no history.                   *)
C17_StylePush ==
    [][ lastOp'.op = "updateSelectedObject" =>
          /\ history' = history
          /\ lastOp'.applied = (active # None)
          /\ IF active = None
             THEN objects' = objects
             ELSE LET i == IndexOf(objects, active)
                      o == objects[i]
                  IN /\ active \in Ids(objects)
                     /\ Len(objects') = Len(objects)
                     /\ \A k \in (1..Len(objects)) \ {i} :
                           objects'[k] = objects[k]
                     /\ objects'[i] =
                          CASE o.type = "i-text" ->
                                 [o EXCEPT !.fontFamily = style'.fontFamily,
                                           !.fontSize = style'.fontSize,
                                           !.fill = style'.fontColor]
                            [] o.type = "line" ->
                                 [o EXCEPT !.stroke = style'.elementColor]
                            [] OTHER ->
                                 [o EXCEPT !.fill = style'.elementColor] ]_vars

(* a line whose stroke follows the element color while its fill stays the  *)
(* default, recorded before the change                                     *)
C17_Witness ==
    /\ lastOp = Op("updateSelectedObject", TRUE)
    /\ Len(objects) = 1
    /\ objects[1].type = "line"
    /\ objects[1].stroke = "#ff0000"
    /\ objects[1].fill = DefaultFill
    /\ style.fontSize = 24
    /\ past = <<EmptyScene, Capture(<<[objects[1] EXCEPT !.stroke = "#e2e8f0"]>>)>>

(* the kinds of the objects of a scene and the files of its images, in     *)
(* order                                                                   *)
Shape(seq) == [i \in 1..Len(seq) |-> <<seq[i].type, seq[i].src>>]

ImagesIn(objs) == {i \in 1..Len(objs) : objs[i].type = "image"}

(* a snapshot whose top object is the image of f: recorded by the          *)
(* completion of f                                                         *)
Recorded(h, f) ==
    \E k \in 1..Len(h) :
        /\ Len(h[k]) >= 1
        /\ Last(h[k]).type = "image"
        /\ Last(h[k]).src = f

NonAddingOps ==
    {"select", "deselect", "updateSelectedObject", "handleImageUpload",
     "reader.onload", "reader.onerror", "img.onerror"}

(* C13 as stated: two files are uploaded together and both decodes         *)
(* succeed; when the second completes, whatever the user did in between    *)
(* that added no object, the object list holds both images and exactly two *)
(* images.                                                                 *)
C13_Original ==
    [][ (/\ canvas = "ready"
         /\ lastOp'.op = "img.onload"
         /\ Pending' = {}
         /\ \A f \in Files : Recorded(history'.past, f)) =>
            /\ \A f \in Files :
                  \E i \in ImagesIn(objects') : objects'[i].src = f
            /\ Cardinality(ImagesIn(objects')) = 2 ]_vars

(* C13 as amended: every completion of a decode appends the image of its   *)
(* file on top of the object list as it then is and appends one snapshot   *)
(* of it to past, clearing future; selecting, deselecting and a style      *)
(* change in between change neither the objects' number and order nor the  *)
(* history; so when the object list at the second completion is still the  *)
(* one the first completion recorded, the two images end on top in         *)
(* completion order and the last two entries of past are theirs. Every     *)
(* upload in flight comes to its end.                                      *)
C13_Amended ==
    /\ [][ /\ (lastOp'.op = "img.onload" =>
                 \E f \in Files :
                    /\ uploads[f] = "decoding"
                    /\ uploads'[f] = "idle"
                    /\ Len(objects') = Len(objects) + 1
                    /\ SubSeq(objects', 1, Len(objects)) = objects
                    /\ Last(objects').type = "image"
                    /\ Last(objects').src = f
                    /\ history'.past = Append(past, Capture(objects'))
                    /\ history'.future = << >>)
           /\ (lastOp'.op \in NonAddingOps =>
                 /\ Shape(objects') = Shape(objects)
                 /\ history' = history)
           /\ ((/\ lastOp'.op = "img.onload"
                /\ Pending' = {}
                /\ Len(objects) >= 1
                /\ Last(objects).type = "image"
                /\ Shape(Last(past)) = Shape(objects)) =>
                 LET n == Len(objects')
                     m == Len(history'.past)
                 IN /\ objects'[n - 1].type = "image"
                    /\ objects'[n].type = "image"
                    /\ {objects'[n - 1].src, objects'[n].src} = Files
                    /\ Len(Last(history'.past)) = Len(Last(past)) + 1
                    /\ Last(history'.past[m - 1]).src = objects'[n - 1].src
                    /\ Last(history'.past[m]).src = objects'[n].src) ]_vars
    /\ \A f \in Files : (uploads[f] # "idle") ~> (uploads[f] = "idle")

(* b.png completes first and is recoloured while a.png is still decoding *)
C13_Witness ==
    /\ canvas = "ready"
    /\ lastOp = Op("img.onload", TRUE)
    /\ Pending = {}
    /\ Shape(objects) = <<<<"image", "b.png">>, <<"image", "a.png">>>>
    /\ objects[1].fill = "#ff0000"
    /\ Len(past) = 3
    /\ Shape(past[2]) = <<<<"image", "b.png">>>>
    /\ past[2][1].fill = DefaultFill
    /\ past[3] = Capture(objects)

(* C14: an upload whose read or decode fails ends without adding an object *)
(* and leaves past and future unchanged.                                   *)
C14_FailedUpload ==
    [][ (\/ lastOp'.op \in {"reader.onerror", "img.onerror"}
         \/ (lastOp'.op = "reader.onload" /\ ~lastOp'.applied)) =>
            /\ UNCHANGED <<objects, active, history>>
            /\ Cardinality(Pending') = Cardinality(Pending) - 1 ]_vars

(* of two files uploaded together the first is decoded and added, the      *)
(* decode of the second fails                                              *)
C14_Witness ==
    /\ canvas = "ready"
    /\ lastOp = Op("img.onerror", FALSE)
    /\ Pending = {}
    /\ Shape(objects) = <<<<"image", "a.png">>>>
    /\ past = <<EmptyScene, Capture(objects)>>

(* C15: once the cleanup of the mount effect has disposed the canvas, the  *)
(* completion of a decode issued before adds no object and appends nothing *)
(* to past.                                                                *)
C15_NoCompletionAfterTeardown ==
    [][ (canvas = "disposed" /\ lastOp'.op = "img.onload") =>
            UNCHANGED <<objects, history>> ]_vars

(* C16: when the restore issued by an undo or a redo fails, past and       *)
(* future are again what they were before that undo or redo, and the       *)
(* object list is unchanged.                                               *)
C16_AllOrNothing ==
    [][ (/\ lastOp'.op = "restore failed"
         /\ lastOp.op \in {"undo", "redo"}
         /\ lastOp.applied
         /\ Len(loads) = 1) =>
            /\ objects' = objects
            /\ history' = IF lastOp.op = "undo"
                          THEN RedoStacks(history)
                          ELSE UndoStacks(history) ]_vars

(* C21: undo and redo restore the object list within their own step, and  *)
(* whenever the last restore in flight has completed the object list is    *)
(* the snapshot at the top of past, whatever the order of completion.      *)
C21_RestoresInOrder ==
    [][ /\ (lastOp'.op \in {"undo", "redo"} /\ lastOp'.applied =>
              loads' = loads)
        /\ (lastOp'.op = "loaded" /\ loads' = << >> =>
              Capture(objects') = Last(history'.past)) ]_vars

(* C22: issuing an upload and the end of its read change neither the       *)
(* object list nor past and future; while the upload is in flight          *)
(* addShape, deleteSelected, moveLayer, undo and redo have their usual     *)
(* effect and leave the upload as it is; the completion of the decode      *)
(* appends the image on top of the object list as it then is, appends one  *)
(* snapshot of it to past and leaves future empty.                         *)
C22_PendingUpload ==
    [][ /\ (lastOp'.op \in {"handleImageUpload", "reader.onload"} =>
              UNCHANGED <<objects, active, history>>)
        /\ (Pending # {} /\ lastOp'.applied =>
              /\ (lastOp'.op = "addShape" =>
                    /\ uploads' = uploads
                    /\ Len(objects') = Len(objects) + 1
                    /\ SubSeq(objects', 1, Len(objects)) = objects
                    /\ Last(objects').type = "rect"
                    /\ history' = [past |-> Append(past, Capture(objects')),
                                   future |-> << >>])
              /\ (lastOp'.op = "deleteSelected" =>
                    /\ uploads' = uploads
                    /\ objects' = Without(objects, active)
                    /\ Len(objects') = Len(objects) - 1
                    /\ history' = [past |-> Append(past, Capture(objects')),
                                   future |-> << >>])
              /\ (lastOp'.op = "moveLayer" =>
                    /\ uploads' = uploads
                    /\ Without(objects', active) = Without(objects, active)
                    /\ Len(objects') = Len(objects)
                    /\ history' = [past |-> Append(past, Capture(objects')),
                                   future |-> << >>])
              /\ (lastOp'.op = "undo" =>
                    /\ uploads' = uploads
                    /\ history' = [past |-> Front(past),
                                   future |-> Append(future, Last(past))]
                    /\ Capture(objects') = Last(history'.past))
              /\ (lastOp'.op = "redo" =>
                    /\ uploads' = uploads
                    /\ history' = [past |-> Append(past, Last(future)),
                                   future |-> Front(future)]
                    /\ Capture(objects') = Last(future)))
        /\ (lastOp'.op = "img.onload" =>
              \E f \in Files :
                 /\ uploads[f] = "decoding"
                 /\ uploads' = [uploads EXCEPT ![f] = "idle"]
                 /\ Len(objects') = Len(objects) + 1
                 /\ SubSeq(objects', 1, Len(objects)) = objects
                 /\ Shape(<<Last(objects')>>) = <<<<"image", f>>>>
                 /\ history' = [past |-> Append(past, Capture(objects')),
                                future |-> << >>]) ]_vars

(* two rectangles, one of them deleted, and the image on top of the other *)
C22_Witness ==
    /\ lastOp = Op("img.onload", TRUE)
    /\ Shape(objects) = <<<<"rect", NoSrc>>, <<"image", "a.png">>>>
    /\ future = << >>
    /\ Len(past) = 5
    /\ Len(past[3]) = 2
    /\ Len(past[4]) = 1
    /\ past[5] = Capture(objects)

(* C23: the active object is none or one of the objects of the object      *)
(* list, after deleteSelected, undo and redo in particular.                *)
C23_SelectionValid ==
    active = None \/ active \in Ids(objects)

(* the rectangle added last was the active object when undo removed it *)
C23_Witness ==
    /\ lastOp = Op("undo", TRUE)
    /\ active = None
    /\ TypesOf(objects) = <<"rect">>
    /\ Len(future) = 1
    /\ TypesOf(future[1]) = <<"rect", "rect">>

Reverse(seq) == [i \in 1..Len(seq) |-> seq[Len(seq) + 1 - i]]

(* C24: undo and redo leave the sequence made of past followed by future   *)
(* read from its top downward unchanged, and so the sum of the two         *)
(* lengths.                                                                *)
C24_StacksConserved ==
    [][ lastOp'.op \in {"undo", "redo"} =>
          /\ history'.past \o Reverse(history'.future) = past \o Reverse(future)
          /\ Len(history'.past) + Len(history'.future) = Len(past) + Len(future)
      ]_vars

C24_Witness ==
    /\ lastOp = Op("redo", TRUE)
    /\ Len(past) = 2
    /\ Len(future) = 1
    /\ Len(future[1]) = 2
    /\ Len(past[2]) = 1

(* C25: moveLayer, bringToFront and sendToBack with an active object leave *)
(* the objects and their attributes as they are and the objects other than *)
(* the active one in their order.                                          *)
C25_OnlyPermutes ==
    [][ (lastOp'.op \in LayerOps /\ lastOp'.applied) =>
          /\ Len(objects') = Len(objects)
          /\ \A i \in 1..Len(objects) :
                \E j \in 1..Len(objects') : objects'[j] = objects[i]
          /\ Cardinality(Ids(objects')) = Len(objects')
          /\ Without(objects', active) = Without(objects, active)
          /\ active' = active ]_vars

(* the rectangle on top of two texts is sent to the back *)
C25_Witness ==
    /\ lastOp = Op("sendToBack", TRUE)
    /\ Len(past) >= 3
    /\ TypesOf(past[Len(past) - 1]) = <<"i-text", "i-text", "rect">>
    /\ TypesOf(objects) = <<"rect", "i-text", "i-text">>
    /\ objects[1].id = active

====
